---- MODULE Spec2Model ----
(***************************************************************************)
(* Model of rfsoc_nrssb/overlay.py: the constructor Overlay.__init__.      *)
(* One action per statement of the constructor; the inputs (bitfile_name,  *)
(* init_rf_clks and the process environment) are chosen in Init.           *)
(* Vendor code (pynq.Overlay.__init__, the rfdc driver's tile collections, *)
(* configure_adcs, configure_dacs) is modelled as calls that return.       *)
(***************************************************************************)
EXTENDS Integers, Sequences, FiniteSets, TLC

\* ---------------------------------------------------------------- bounds
\* Sizes of the tile / block collections the RF data-converter driver
\* supplies (self.rfdc.dac_tiles, self.rfdc.adc_tiles, tile.blocks).
NumTiles == 4
NumBlocks == 4

\* ------------------------------------------------------------- sentinels
NoneStr == "<None>"
NoRef == [conv |-> "none"]
NoFs == 0

\* ------------------------------------------------------- input universes
\* The five identifiers the if/elif chain compares against.
Known == {"RFSoC4x2", "ZCU208", "ZCU216", "RFSoC2x2", "ZCU111"}

\* Values of BOARD that are not compared-equal to any of the five.
Unrecognized == {"", "zcu111", "ZCU111 ", "ZCU104", "rfsoc4x2"}

BoardValues == Known \cup Unrecognized

\* os.environ: a mapping that holds BOARD or does not hold it.
Environments ==
    {[PATH |-> "/usr/bin"]} \cup
    {[PATH |-> "/usr/bin", BOARD |-> b] : b \in BoardValues}

BitfileArgs == {NoneStr, "custom.bit"}

DefaultBitfile == "rfsoc_nrssb/bitstream/rfsoc_nrssb.bit"

\* Names bound at module level by the import statements and the class
\* statement of overlay.py.
ModuleGlobals == {"Overlay", "os", "xrfdc", "xrfclk"}

\* ------------------------------------------------- vendor tile / blocks
Block(c, t, b) == [conv |-> c, tile |-> t, block |-> b]

Tile(c, t) ==
    [conv |-> c, idx |-> t,
     blocks |-> [b \in 0..(NumBlocks - 1) |-> Block(c, t, b)]]

dac_tiles == [t \in 0..(NumTiles - 1) |-> Tile("dac", t)]

adc_tiles == [t \in 0..(NumTiles - 1) |-> Tile("adc", t)]

\* --------------------------------------------------- the if / elif chain
Arm_NoElse(b) ==
    IF b = "RFSoC4x2" THEN "RFSoC4x2"
    ELSE IF b \in {"ZCU208", "ZCU216"} THEN "ZCU208_ZCU216"
    ELSE IF b = "RFSoC2x2" THEN "RFSoC2x2"
    ELSE "ZCU111"

Arm_CaseFold(b) ==
    IF b \in {"RFSoC4x2", "rfsoc4x2"} THEN "RFSoC4x2"
    ELSE IF b \in {"ZCU208", "ZCU216"} THEN "ZCU208_ZCU216"
    ELSE IF b = "RFSoC2x2" THEN "RFSoC2x2"
    ELSE IF b \in {"ZCU111", "zcu111"} THEN "ZCU111"
    ELSE "else"

Arm(b) ==
    IF b = "RFSoC4x2" THEN "RFSoC4x2"
    ELSE IF b \in {"ZCU208", "ZCU216"} THEN "ZCU208_ZCU216"
    ELSE IF b = "RFSoC2x2" THEN "RFSoC2x2"
    ELSE IF b = "ZCU111" THEN "ZCU111"
    ELSE "else"

DacTileIdx(a) ==
    CASE a = "RFSoC4x2" -> 2
      [] a = "ZCU208_ZCU216" -> 2
      [] a = "RFSoC2x2" -> 1
      [] a = "ZCU111" -> 1

DacBlockIdx(a) ==
    CASE a = "RFSoC4x2" -> 0
      [] a = "ZCU208_ZCU216" -> 0
      [] a = "RFSoC2x2" -> 0
      [] a = "ZCU111" -> 2

AdcTileIdx(a) ==
    CASE a = "RFSoC4x2" -> 2
      [] a = "ZCU208_ZCU216" -> 1
      [] a = "RFSoC2x2" -> 2
      [] a = "ZCU111" -> 0

AdcBlockIdx(a) ==
    CASE a = "RFSoC4x2" -> 1
      [] a = "ZCU208_ZCU216" -> 0
      [] a = "RFSoC2x2" -> 0
      [] a = "ZCU111" -> 0

SampleFreq_Swapped(b) == IF b = "ZCU208" THEN 1920 ELSE 3840

SampleFreq(b) == IF b = "ZCU216" THEN 1920 ELSE 3840

\* ------------------------------------------------------------------ state
VARIABLES
    pc,            \* the statement the constructor is about to execute
    bitfile_name,  \* parameter / local bitfile_name
    init_rf_clks,  \* parameter init_rf_clks
    environ,       \* os.environ
    loaded,        \* bitfile handed to the base-class constructor
    board,         \* local board
    arm,           \* arm of the if/elif chain that was entered
    dac_tile,      \* self.dac_tile
    dac_block,     \* self.dac_block
    adc_tile,      \* self.adc_tile
    adc_block,     \* self.adc_block
    fs,            \* local fs
    trace,         \* statements with an outside effect, in execution order
    err            \* exception that left the constructor, or "none"

vars == <<pc, bitfile_name, init_rf_clks, environ, loaded, board, arm,
          dac_tile, dac_block, adc_tile, adc_block, fs, trace, err>>

refs == <<dac_tile, dac_block, adc_tile, adc_block>>

inputs == <<init_rf_clks, environ>>

Ev(s, a) == [step |-> s, args |-> a]

Raise(e) == pc' = "failed" /\ err' = e

Init ==
    /\ pc = "default_bitfile"
    /\ bitfile_name \in BitfileArgs
    /\ init_rf_clks \in BOOLEAN
    /\ environ \in Environments
    /\ loaded = NoneStr
    /\ board = NoneStr
    /\ arm = NoneStr
    /\ dac_tile = NoRef
    /\ dac_block = NoRef
    /\ adc_tile = NoRef
    /\ adc_block = NoRef
    /\ fs = NoFs
    /\ trace = << >>
    /\ err = "none"

\* lines 17-19
GenerateDefaultBitfile ==
    /\ pc = "default_bitfile"
    /\ bitfile_name' = IF bitfile_name = NoneStr THEN DefaultBitfile
                       ELSE bitfile_name
    /\ pc' = "create_overlay"
    /\ UNCHANGED <<inputs, loaded, board, arm, refs, fs, trace, err>>

\* line 22
CreateOverlay ==
    /\ pc = "create_overlay"
    /\ loaded' = bitfile_name
    /\ trace' = Append(trace, Ev("super_init", <<bitfile_name>>))
    /\ pc' = "read_board"
    /\ UNCHANGED <<bitfile_name, inputs, board, arm, refs, fs, err>>

\* line 25
ReadBoard ==
    /\ pc = "read_board"
    /\ trace' = Append(trace, Ev("read_BOARD", << >>))
    /\ IF "BOARD" \in DOMAIN environ
         THEN /\ board' = environ.BOARD
              /\ pc' = "branch"
              /\ err' = err
         ELSE /\ Raise("KeyError")
              /\ board' = board
    /\ UNCHANGED <<bitfile_name, inputs, loaded, arm, refs, fs>>

\* lines 28, 33, 38, 43: one of the four conditions is true
EnterArm ==
    /\ pc = "branch"
    /\ Arm(board) # "else"
    /\ arm' = Arm(board)
    /\ pc' = "set_dac_tile"
    /\ UNCHANGED <<bitfile_name, inputs, loaded, board, refs, fs, trace, err>>

RaiseUnknown_Continue ==
    /\ pc = "branch"
    /\ Arm(board) = "else"
    /\ arm' = "else"
    /\ pc' = "start_clocks"
    /\ UNCHANGED <<bitfile_name, inputs, loaded, board, refs, fs, trace, err>>

\* lines 48-49
RaiseUnknown ==
    /\ pc = "branch"
    /\ Arm(board) = "else"
    /\ arm' = "else"
    /\ Raise("RuntimeError")
    /\ UNCHANGED <<bitfile_name, inputs, loaded, board, refs, fs, trace>>

\* lines 29, 34, 39, 44
SetDacTile ==
    /\ pc = "set_dac_tile"
    /\ dac_tile' = dac_tiles[DacTileIdx(arm)]
    /\ trace' = Append(trace, Ev("dac_tile", << >>))
    /\ pc' = "set_dac_block"
    /\ UNCHANGED <<bitfile_name, inputs, loaded, board, arm,
                   dac_block, adc_tile, adc_block, fs, err>>

SetDacBlock_OtherTile ==
    /\ pc = "set_dac_block"
    /\ dac_block' = dac_tiles[0].blocks[DacBlockIdx(arm)]
    /\ trace' = Append(trace, Ev("dac_block", << >>))
    /\ pc' = "set_adc_tile"
    /\ UNCHANGED <<bitfile_name, inputs, loaded, board, arm,
                   dac_tile, adc_tile, adc_block, fs, err>>

\* lines 30, 35, 40, 45
SetDacBlock ==
    /\ pc = "set_dac_block"
    /\ dac_block' = dac_tile.blocks[DacBlockIdx(arm)]
    /\ trace' = Append(trace, Ev("dac_block", << >>))
    /\ pc' = "set_adc_tile"
    /\ UNCHANGED <<bitfile_name, inputs, loaded, board, arm,
                   dac_tile, adc_tile, adc_block, fs, err>>

\* lines 31, 36, 41, 46
SetAdcTile ==
    /\ pc = "set_adc_tile"
    /\ adc_tile' = adc_tiles[AdcTileIdx(arm)]
    /\ trace' = Append(trace, Ev("adc_tile", << >>))
    /\ pc' = "set_adc_block"
    /\ UNCHANGED <<bitfile_name, inputs, loaded, board, arm,
                   dac_tile, dac_block, adc_block, fs, err>>

\* lines 32, 37, 42, 47
SetAdcBlock ==
    /\ pc = "set_adc_block"
    /\ adc_block' = adc_tile.blocks[AdcBlockIdx(arm)]
    /\ trace' = Append(trace, Ev("adc_block", << >>))
    /\ pc' = "start_clocks"
    /\ UNCHANGED <<bitfile_name, inputs, loaded, board, arm,
                   dac_tile, dac_block, adc_tile, fs, err>>

\* line 52, condition false
SkipClocks ==
    /\ pc = "start_clocks"
    /\ ~init_rf_clks
    /\ pc' = "select_fs"
    /\ UNCHANGED <<bitfile_name, inputs, loaded, board, arm, refs, fs,
                   trace, err>>

InitClocks_Always ==
    /\ pc = "start_clocks"
    /\ trace' = Append(trace, Ev("set_custom_lmclks", << >>))
    /\ IF "clocks" \in ModuleGlobals
         THEN pc' = "select_fs" /\ err' = err
         ELSE Raise("NameError")
    /\ UNCHANGED <<bitfile_name, inputs, loaded, board, arm, refs, fs>>

\* lines 52-53, condition true: the statement clocks.set_custom_lmclks()
\* is executed; the name clocks is looked up in the module's globals.
InitClocks ==
    /\ pc = "start_clocks"
    /\ init_rf_clks
    /\ trace' = Append(trace, Ev("set_custom_lmclks", << >>))
    /\ IF "clocks" \in ModuleGlobals
         THEN pc' = "select_fs" /\ err' = err
         ELSE Raise("NameError")
    /\ UNCHANGED <<bitfile_name, inputs, loaded, board, arm, refs, fs>>

\* lines 55-58
SelectFs ==
    /\ pc = "select_fs"
    /\ fs' = SampleFreq(board)
    /\ pc' = "configure_adcs"
    /\ UNCHANGED <<bitfile_name, inputs, loaded, board, arm, refs, trace, err>>

\* line 60
ConfigureAdcs ==
    /\ pc = "configure_adcs"
    /\ trace' = Append(trace, Ev("configure_adcs", <<fs>>))
    /\ pc' = "configure_dacs"
    /\ UNCHANGED <<bitfile_name, inputs, loaded, board, arm, refs, fs, err>>

ConfigureDacs_First ==
    /\ pc \in {"configure_adcs", "configure_dacs"}
    /\ trace' = Append(trace, Ev("configure_dacs", << >>))
    /\ pc' = IF pc = "configure_adcs" THEN "configure_adcs_late" ELSE "done"
    /\ UNCHANGED <<bitfile_name, inputs, loaded, board, arm, refs, fs, err>>

\* line 61
ConfigureDacs ==
    /\ pc = "configure_dacs"
    /\ trace' = Append(trace, Ev("configure_dacs", << >>))
    /\ pc' = "done"
    /\ UNCHANGED <<bitfile_name, inputs, loaded, board, arm, refs, fs, err>>

Next ==
    \/ GenerateDefaultBitfile
    \/ CreateOverlay
    \/ ReadBoard
    \/ EnterArm
    \/ RaiseUnknown
    \/ SetDacTile
    \/ SetDacBlock
    \/ SetAdcTile
    \/ SetAdcBlock
    \/ SkipClocks
    \/ InitClocks
    \/ SelectFs
    \/ ConfigureAdcs
    \/ ConfigureDacs

Spec == Init /\ [][Next]_vars

\* ------------------------------------------------ vocabulary of the claims
Invoked(s) == \E i \in DOMAIN trace : trace[i].step = s

StepsOf(tr) == [i \in DOMAIN tr |-> tr[i].step]

IsPrefix(p, q) ==
    /\ Len(p) <= Len(q)
    /\ \A i \in 1..Len(p) : p[i] = q[i]

IsConfigCall(e) == e.step \in {"configure_adcs", "configure_dacs"}

ConfigCalls == SelectSeq(trace, IsConfigCall)

IsHardwareCall(e) ==
    e.step \in {"super_init", "set_custom_lmclks",
                "configure_adcs", "configure_dacs"}

HardwareCalls == StepsOf(SelectSeq(trace, IsHardwareCall))

RefsUnset ==
    /\ dac_tile = NoRef
    /\ dac_block = NoRef
    /\ adc_tile = NoRef
    /\ adc_block = NoRef

RefsSet ==
    /\ dac_tile # NoRef
    /\ dac_block # NoRef
    /\ adc_tile # NoRef
    /\ adc_block # NoRef

BlocksOf(t) == {t.blocks[i] : i \in DOMAIN t.blocks}

Finished == pc \in {"done", "failed"}

\* The documented table: board -> DAC tile/block, ADC tile/block, frequency.
Documented(b) ==
    CASE b = "RFSoC4x2" -> [dt |-> 2, db |-> 0, at |-> 2, ab |-> 1, fs |-> 3840]
      [] b = "ZCU208"   -> [dt |-> 2, db |-> 0, at |-> 1, ab |-> 0, fs |-> 3840]
      [] b = "ZCU216"   -> [dt |-> 2, db |-> 0, at |-> 1, ab |-> 0, fs |-> 1920]
      [] b = "RFSoC2x2" -> [dt |-> 1, db |-> 0, at |-> 2, ab |-> 0, fs |-> 3840]
      [] b = "ZCU111"   -> [dt |-> 1, db |-> 2, at |-> 0, ab |-> 0, fs |-> 3840]

RefsAsDocumented(b) ==
    /\ dac_tile = Tile("dac", Documented(b).dt)
    /\ dac_block = Block("dac", Documented(b).dt, Documented(b).db)
    /\ adc_tile = Tile("adc", Documented(b).at)
    /\ adc_block = Block("adc", Documented(b).at, Documented(b).ab)

AfterAssignment ==
    {"start_clocks", "select_fs", "configure_adcs", "configure_dacs", "done"}

AfterSelectFs == {"configure_adcs", "configure_dacs", "done"}

\* ------------------------------------------------------------------- C1
\* C1: for each of the five known boards every reference the constructor
\* has assigned is the documented one (tile and block index), the four
\* references are all assigned once the if/elif chain is left, the sample
\* frequency it selects is the documented one, and that frequency is 1920
\* exactly when the board is ZCU216.
C1_MappingAsDocumented ==
    board \in Known =>
        /\ dac_tile # NoRef => dac_tile = Tile("dac", Documented(board).dt)
        /\ dac_block # NoRef =>
               dac_block = Block("dac", Documented(board).dt, Documented(board).db)
        /\ adc_tile # NoRef => adc_tile = Tile("adc", Documented(board).at)
        /\ adc_block # NoRef =>
               adc_block = Block("adc", Documented(board).at, Documented(board).ab)
        /\ pc \in AfterAssignment => RefsAsDocumented(board)
        /\ pc \in AfterSelectFs =>
               /\ fs = Documented(board).fs
               /\ (fs = 1920 <=> board = "ZCU216")
        /\ fs # NoFs => pc \in AfterSelectFs

C1_Witness ==
    /\ board = "ZCU216"
    /\ pc = "done"
    /\ fs = 1920
    /\ adc_block = Block("adc", 1, 0)

\* ------------------------------------------------------------------- C2
\* C2: when BOARD holds a value that is not one of the five identifiers the
\* constructor fails: it never completes, it stops at the raise, and the
\* clock initialization, configure_adcs and configure_dacs are never
\* reached, whatever init_rf_clks is.
C2_UnknownBoardFails ==
    (board # NoneStr /\ board \notin Known) =>
        /\ pc \in {"branch", "failed"}
        /\ pc = "failed" => err # "none"
        /\ ~Invoked("set_custom_lmclks")
        /\ ~Invoked("configure_adcs")
        /\ ~Invoked("configure_dacs")

C2_Witness ==
    /\ board = "ZCU104"
    /\ init_rf_clks
    /\ pc = "failed"
    /\ err = "RuntimeError"

\* ------------------------------------------------------------------- C3
\* C3 as stated: when the unrecognized-board error is raised no hardware
\* operation of the constructor has been performed, the base-class overlay
\* load included.
C3_NoHardwareCallAtAll ==
    err = "RuntimeError" =>
        /\ HardwareCalls = << >>
        /\ loaded = NoneStr

\* C3 amended: when BOARD is unrecognized the only hardware operation
\* performed is the base-class overlay load, which has already happened
\* when the error is raised; no tile/block reference is set, no frequency
\* is selected and neither the clock initialization nor a configuration
\* call is made.
C3_OnlyOverlayLoaded ==
    (board # NoneStr /\ board \notin Known) =>
        /\ HardwareCalls = <<"super_init">>
        /\ loaded # NoneStr
        /\ RefsUnset
        /\ fs = NoFs
        /\ pc # "branch" => (pc = "failed" /\ err = "RuntimeError")

C3_Witness ==
    /\ err = "RuntimeError"
    /\ board = ""
    /\ loaded = DefaultBitfile
    /\ HardwareCalls = <<"super_init">>

\* ------------------------------------------------------------------- C4
\* C4: the only error the constructor raises is the unrecognized-board
\* error (also when BOARD is absent), and for a recognized board the
\* constructor never fails, for either value of init_rf_clks.
C4_SingleErrorKind ==
    /\ pc = "failed" => err = "RuntimeError"
    /\ board \in Known => pc # "failed"

\* ------------------------------------------------------------------- C5
\* C5: once the if/elif chain has been evaluated, an arm that assigns the
\* tile/block references was entered exactly when BOARD is one of the five
\* identifiers, and the error branch was taken exactly when it is not.
C5_ExactlyFiveAccepted ==
    (board # NoneStr /\ pc # "branch") =>
        /\ board \in {"RFSoC4x2", "ZCU208", "ZCU216", "RFSoC2x2", "ZCU111"}
               <=> (/\ arm \notin {NoneStr, "else"}
                    /\ (pc = "set_dac_tile" \/ Invoked("dac_tile")))
        /\ board \notin {"RFSoC4x2", "ZCU208", "ZCU216", "RFSoC2x2", "ZCU111"}
               <=> (arm = "else" /\ err = "RuntimeError")

C5_Witness ==
    /\ board = "zcu111"
    /\ arm = "else"
    /\ err = "RuntimeError"

\* ------------------------------------------------------------------- C6
\* C6: a completed construction has made exactly the two configuration
\* calls configure_adcs(fs of the board) and then configure_dacs(), once
\* each; configure_dacs is never called before configure_adcs.
C6_TwoConfigCallsInOrder ==
    /\ pc = "done" =>
           ConfigCalls = << Ev("configure_adcs", <<Documented(board).fs>>),
                            Ev("configure_dacs", << >>) >>
    /\ Invoked("configure_dacs") =>
           /\ Len(ConfigCalls) = 2
           /\ ConfigCalls[1].step = "configure_adcs"
    /\ Len(ConfigCalls) <= 2

C6_Witness ==
    /\ pc = "done"
    /\ board = "ZCU216"
    /\ Len(ConfigCalls) = 2

\* ------------------------------------------------------------------- C7
\* C7: the steps executed so far are always an initial part of the one
\* fixed order: overlay load, read of BOARD, dac_tile, dac_block, adc_tile,
\* adc_block, the clock initialization (present only when init_rf_clks),
\* configure_adcs, configure_dacs.
ExpectedOrder(f) ==
    <<"super_init", "read_BOARD", "dac_tile", "dac_block", "adc_tile",
      "adc_block">>
    \o (IF f THEN <<"set_custom_lmclks">> ELSE << >>)
    \o <<"configure_adcs", "configure_dacs">>

C7_FixedOrder ==
    /\ IsPrefix(StepsOf(trace), ExpectedOrder(init_rf_clks))
    /\ pc = "done" => StepsOf(trace) = ExpectedOrder(init_rf_clks)

C7_Witness ==
    /\ pc = "done"
    /\ Len(trace) = 8
    /\ trace[8].step = "configure_dacs"

\* ------------------------------------------------------------------- C8
\* C8: for a recognized board the outcome of a finished construction is
\* the same for both values of init_rf_clks except for the clock step: the
\* references are the board's, configure_adcs got the board's frequency,
\* configure_dacs was called, and the clock initialization was attempted
\* exactly when init_rf_clks is true.
C8_FlagOnlyControlsClocks ==
    (Finished /\ board \in Known) =>
        /\ RefsAsDocumented(board)
        /\ ConfigCalls = << Ev("configure_adcs", <<Documented(board).fs>>),
                            Ev("configure_dacs", << >>) >>
        /\ Invoked("set_custom_lmclks") <=> init_rf_clks

\* ------------------------------------------------------------------- C9
\* C9: whenever the clock initialization, configure_adcs or configure_dacs
\* has been reached the four references are set, dac_block is one of
\* dac_tile's blocks and adc_block one of adc_tile's blocks; and while the
\* board is not a recognized one (so in every state of an execution that
\* ends in the unrecognized-board error) none of the four is set.
C9_RefsSetBeforeCalls ==
    /\ (\/ Invoked("set_custom_lmclks")
        \/ Invoked("configure_adcs")
        \/ Invoked("configure_dacs")) =>
           /\ RefsSet
           /\ dac_block \in BlocksOf(dac_tile)
           /\ adc_block \in BlocksOf(adc_tile)
    /\ board \notin Known => RefsUnset
    /\ err = "RuntimeError" => RefsUnset

C9_Witness ==
    /\ Invoked("set_custom_lmclks")
    /\ board = "ZCU111"
    /\ dac_block \in BlocksOf(dac_tile)
    /\ dac_block.block = 2

====
